---- MODULE Spec2Model ----
(***************************************************************************)
(* Model of package uapi (src/uapi/entry.go): the Boot Loader Entry parser *)
(* LoadEntry, the GRUB block extractor ExtractGrubMenuentries and the GRUB *)
(* entry parser LoadGrubEntry.                                             *)
(*                                                                         *)
(* A Go string or []byte is a sequence of tokens.  A token is either one   *)
(* of the characters the code inspects (space, tab, CR, LF, the braces,    *)
(* the single quote, '#', '/', '\') or a word: a run of other characters   *)
(* that the code only ever compares or copies as a whole.                  *)
(***************************************************************************)
EXTENDS Integers, Sequences, FiniteSets, TLC

\* ------------------------------------------------------------------ bounds
\* largest number of "\n"-separated lines of a UAPI entry file
MaxUapiLines == 3
\* largest number of "\n"-separated lines of a GRUB config file
MaxGrubLines == 4
\* largest number of "\n"-separated lines of a text given to the extractor
MaxExtractLines == 4

\* ------------------------------------------------------- string primitives
LF == "\n"
CR == "\r"
SP == " "
TAB == "\t"
QUOTE == "'"
LBRACE == "{"
RBRACE == "}"
HASH == "#"
SLASH == "/"
BACKSLASH == "\\"

\* unicode.IsSpace restricted to the tokens of the model
IsSpace(t) == t \in {SP, TAB, CR, LF}

\* the concatenation of a sequence of strings
RECURSIVE Concat(_)
Concat(ss) == IF ss = <<>> THEN <<>> ELSE Head(ss) \o Concat(Tail(ss))

\* strings.Join(ss, sep)
RECURSIVE Join(_, _)
Join(ss, sep) ==
  IF ss = <<>> THEN <<>>
  ELSE IF Len(ss) = 1 THEN ss[1]
  ELSE ss[1] \o sep \o Join(Tail(ss), sep)

\* strings.Count(s, t) for a one-character t
RECURSIVE Count(_, _)
Count(s, t) ==
  IF s = <<>> THEN 0
  ELSE (IF Head(s) = t THEN 1 ELSE 0) + Count(Tail(s), t)

\* strings.Contains(s, t) for a one-character t
Contains(s, t) == \E n \in 1..Len(s) : s[n] = t

\* strings.Index(s, t) for a one-character t, 1-based; 0 when absent
Index(s, t) ==
  IF Contains(s, t)
  THEN CHOOSE n \in 1..Len(s) : s[n] = t /\ \A m \in 1..(n - 1) : s[m] # t
  ELSE 0

\* strings.ReplaceAll(s, a, b) for one-character a and b
ReplaceAll(s, a, b) == [n \in 1..Len(s) |-> IF s[n] = a THEN b ELSE s[n]]

\* strings.TrimLeft / TrimRight / Trim over a cutset of characters
RECURSIVE TrimLeft(_, _)
TrimLeft(s, cut) ==
  IF s # <<>> /\ Head(s) \in cut THEN TrimLeft(Tail(s), cut) ELSE s

RECURSIVE TrimRight(_, _)
TrimRight(s, cut) ==
  IF s # <<>> /\ s[Len(s)] \in cut
  THEN TrimRight(SubSeq(s, 1, Len(s) - 1), cut)
  ELSE s

Trim(s, cut) == TrimRight(TrimLeft(s, cut), cut)

\* strings.TrimSpace(s)
TrimSpace(s) == Trim(s, {SP, TAB, CR, LF})

\* strings.HasPrefix(s, t) for a one-character t
HasPrefix(s, t) == s # <<>> /\ Head(s) = t

\* strings.Split(s, sep) for a one-character sep: always at least one piece
RECURSIVE Split(_, _)
Split(s, sep) ==
  LET n == Index(s, sep)
  IN  IF n = 0 THEN <<s>>
      ELSE <<SubSeq(s, 1, n - 1)>> \o Split(SubSeq(s, n + 1, Len(s)), sep)

\* strings.SplitN(s, sep, 2) for a one-character sep
SplitN2(s, sep) ==
  LET n == Index(s, sep)
  IN  IF n = 0 THEN <<s>>
      ELSE <<SubSeq(s, 1, n - 1), SubSeq(s, n + 1, Len(s))>>

\* strings.Lines(s): the lines of s, each with its terminating "\n"; a last
\* line without terminator is yielded as it is, the empty string has none
RECURSIVE Lines(_)
Lines(s) ==
  LET n == Index(s, LF)
  IN  IF s = <<>> THEN <<>>
      ELSE IF n = 0 THEN <<s>>
      ELSE <<SubSeq(s, 1, n)>> \o Lines(SubSeq(s, n + 1, Len(s)))

\* strings.Fields(s): the maximal runs of non-space characters
RECURSIVE Fields(_)
Fields(s) ==
  LET t == TrimLeft(s, {SP, TAB, CR, LF})
      stop == IF \E n \in 1..Len(t) : IsSpace(t[n])
              THEN CHOOSE n \in 1..Len(t) :
                     IsSpace(t[n]) /\ \A m \in 1..(n - 1) : ~IsSpace(t[m])
              ELSE Len(t) + 1
  IN  IF t = <<>> THEN <<>>
      ELSE <<SubSeq(t, 1, stop - 1)>> \o Fields(SubSeq(t, stop, Len(t)))

\* bufio.ScanLines over the whole text: the "\n"-separated lines without
\* their terminator and without one trailing "\r"; no final empty line
RECURSIVE ScanLines(_)
ScanLines(s) ==
  LET n == Index(s, LF)
      dropCR(l) == IF l # <<>> /\ l[Len(l)] = CR
                   THEN SubSeq(l, 1, Len(l) - 1) ELSE l
  IN  IF s = <<>> THEN <<>>
      ELSE IF n = 0 THEN <<dropCR(s)>>
      ELSE <<dropCR(SubSeq(s, 1, n - 1))>> \o ScanLines(SubSeq(s, n + 1, Len(s)))

\* ------------------------------------------------------- regular expressions
\* index of the first character of s at or after n that is not white space
\* (Len(s) + 1 when there is none)
RECURSIVE SkipSpace(_, _)
SkipSpace(s, n) ==
  IF n <= Len(s) /\ IsSpace(s[n]) THEN SkipSpace(s, n + 1) ELSE n

\* index of the first single quote of s at or after n (Len(s) + 1 when none)
RECURSIVE NextQuote(_, _)
NextQuote(s, n) ==
  IF n <= Len(s) /\ s[n] # QUOTE THEN NextQuote(s, n + 1) ELSE n

\* menuentry\s+'([^']+)' matched with its first character at index p of s:
\* <<title>> when it matches there, <<>> when it does not
MatchMenuentryAt(s, p) ==
  LET q == SkipSpace(s, p + 1)
      r == NextQuote(s, q + 1)
  IN  IF /\ p >= 1 /\ p <= Len(s) /\ s[p] = "menuentry"
         /\ q > p + 1 /\ q <= Len(s) /\ s[q] = QUOTE
         /\ r <= Len(s) /\ r > q + 1
      THEN <<SubSeq(s, q + 1, r - 1)>>
      ELSE <<>>

\* menuentryStart.MatchString(line), menuentryStart = ^\s*menuentry\s+'([^']+)'
menuentryStart(line) == MatchMenuentryAt(line, SkipSpace(line, 1)) # <<>>

\* titleRe.FindStringSubmatch(block), titleRe = menuentry\s+'([^']+)':
\* <<m[1]>> for the leftmost match, <<>> for m == nil
titleRe(block) ==
  LET hits == {p \in 1..Len(block) : MatchMenuentryAt(block, p) # <<>>}
  IN  IF hits = {} THEN <<>>
      ELSE MatchMenuentryAt(block, CHOOSE p \in hits : \A o \in hits : p <= o)

\* bodyRe matching greedily, from the first "{" to the last "}"
bodyReGreedy(block) ==
  LET open == Index(block, LBRACE)
      closes == {n \in (open + 1)..Len(block) : block[n] = RBRACE}
  IN  IF open = 0 \/ closes = {} THEN <<>>
      ELSE <<SubSeq(block, open + 1, (CHOOSE n \in closes : \A m \in closes : m <= n) - 1)>>

\* bodyRe.FindStringSubmatch(block), bodyRe = \{([^}]*)\}: <<m[1]>> for the
\* leftmost match, <<>> for m == nil.  [^}]* also matches "{" and "\n", so
\* the leftmost match starts at the first "{" and ends at the first "}"
\* after it; when no "}" follows the first "{" none follows a later one.
bodyRe(block) ==
  LET open == Index(block, LBRACE)
      after == SubSeq(block, open + 1, Len(block))
      close == Index(after, RBRACE)
  IN  IF open = 0 \/ close = 0 THEN <<>>
      ELSE <<SubSeq(after, 1, close - 1)>>

\* ------------------------------------------------ ExtractGrubMenuentries
\* the local variables of ExtractGrubMenuentries before its loop
ExtractInit ==
  [collecting |-> FALSE, braceLevel |-> 0, current |-> <<>>, entries |-> <<>>]

\* braceLevel after the line that starts a block
OpeningLevel(line) ==
  IF Contains(line, LBRACE)
  THEN IF Count(line, RBRACE) > 0 THEN 1 - Count(line, RBRACE) ELSE 1
  ELSE 0

\* ExtractLine starting a new block on a menuentry line met while collecting
ExtractLineRestart(st, line) ==
  IF menuentryStart(line)
  THEN [st EXCEPT !.collecting = TRUE,
                  !.braceLevel = OpeningLevel(line),
                  !.current = <<line>>]
  ELSE IF ~st.collecting THEN st
  ELSE LET level == st.braceLevel + Count(line, LBRACE) - Count(line, RBRACE)
           cur == Append(st.current, line)
       IN  IF level = 0
           THEN [collecting |-> FALSE, braceLevel |-> level, current |-> <<>>,
                 entries |-> Append(st.entries, Join(cur, <<LF>>))]
           ELSE [st EXCEPT !.braceLevel = level, !.current = cur]

\* one iteration of the loop over the lines
ExtractLine(st, line) ==
  IF ~st.collecting
  THEN IF menuentryStart(line)
       THEN [st EXCEPT !.collecting = TRUE,
                       !.braceLevel = OpeningLevel(line),
                       !.current = <<line>>]
       ELSE st
  ELSE LET level == st.braceLevel + Count(line, LBRACE) - Count(line, RBRACE)
           cur == Append(st.current, line)
       IN  IF level = 0
           THEN [collecting |-> FALSE, braceLevel |-> level, current |-> <<>>,
                 entries |-> Append(st.entries, Join(cur, <<LF>>))]
           ELSE [st EXCEPT !.braceLevel = level, !.current = cur]

\* the loop over lines, from state st
RECURSIVE ExtractLoop(_, _)
ExtractLoop(st, lines) ==
  IF lines = <<>> THEN st
  ELSE ExtractLoop(ExtractLine(st, Head(lines)), Tail(lines))

\* ExtractResult adding the block still being collected
ExtractResultFlush(st) ==
  IF st.collecting THEN Append(st.entries, Join(st.current, <<LF>>))
  ELSE st.entries

\* return entries, nil
ExtractResult(st) == st.entries

\* ExtractGrubMenuentries(data): the returned entries (the error is nil)
ExtractGrubMenuentries(data) ==
  ExtractResult(ExtractLoop(ExtractInit, Split(data, LF)))

\* ------------------------------------------------------------ file tree
\* fs.ReadFile(fsys, path): the bytes read and whether an error is returned
ReadFile(tree, path) ==
  IF path \in DOMAIN tree THEN tree[path] ELSE [data |-> <<>>, err |-> TRUE]

\* Translate leaving the value as it is written
TranslateNot(v) == v

\* v = strings.ReplaceAll(v, `/`, `\`)
Translate(v) == ReplaceAll(v, SLASH, BACKSLASH)

\* Entry.loadKeyValue(v)
loadKeyValue(tree, v) == ReadFile(tree, Translate(v))

\* the record of one fs.ReadFile call made through loadKeyValue
Lookup(tree, v) == [path |-> Translate(v), ok |-> ~loadKeyValue(tree, v).err]

\* &Entry{fsys: fsys}
NewEntry ==
  [Title |-> <<>>, Linux |-> <<>>, Initrd |-> <<>>, Options |-> <<>>,
   parsed |-> <<>>, ignored |-> <<>>]

\* AppendInitrd putting the new image in front
PrependInitrd(en, initrd) == [en EXCEPT !.Initrd = initrd \o @]

\* e.Initrd = append(e.Initrd, initrd...)
AppendInitrd(en, initrd) == [en EXCEPT !.Initrd = @ \o initrd]

\* Recognize recording the trimmed line, newline-terminated
RecognizeTrimmed(en, line) == [en EXCEPT !.parsed = @ \o TrimSpace(line) \o <<LF>>]

\* e.parsed += line
Recognize(en, line) == [en EXCEPT !.parsed = @ \o line]

\* Ignore recording the trimmed line
IgnoreTrimmed(en, line) == [en EXCEPT !.ignored = @ \o TrimSpace(line)]

\* e.ignored += line
Ignore(en, line) == [en EXCEPT !.ignored = @ \o line]

\* SetTitle keeping a title already set
SetTitleOnce(en, v) == [en EXCEPT !.Title = IF @ = <<>> THEN v ELSE @]

\* e.Title = v
SetTitle(en, v) == [en EXCEPT !.Title = v]

\* AppendOptions putting a space between the values
AppendOptionsSpaced(en, v) ==
  [en EXCEPT !.Options = IF @ = <<>> THEN v ELSE @ \o <<SP>> \o v]

\* e.Options += v
AppendOptions(en, v) == [en EXCEPT !.Options = @ \o v]

\* Entry.String()
String(en) == en.parsed

\* Entry.Ignored()
Ignored(en) == en.ignored

\* ----------------------------------------------------------- Entry.parseKey
\* parseKey(line) on entry en: the entry afterwards, whether an error is
\* returned and the file lookups made
parseKey(tree, en, line) ==
  LET kv == SplitN2(line, SP)
      k == kv[1]
      v == TrimSpace(Trim(kv[2], {LF, CR}))
      f == loadKeyValue(tree, v)
      ok(x) == [e |-> Recognize(x, line), err |-> FALSE, calls |-> <<>>]
  IN  IF Len(kv) < 2 THEN [e |-> en, err |-> FALSE, calls |-> <<>>]
      ELSE IF k = <<"title">> THEN ok(SetTitle(en, v))
      ELSE IF k = <<"linux">>
      THEN IF f.err
           THEN [e |-> [en EXCEPT !.Linux = f.data], err |-> TRUE,
                 calls |-> <<Lookup(tree, v)>>]
           ELSE [e |-> Recognize([en EXCEPT !.Linux = f.data], line),
                 err |-> FALSE, calls |-> <<Lookup(tree, v)>>]
      ELSE IF k = <<"initrd">>
      THEN IF f.err
           THEN [e |-> en, err |-> TRUE, calls |-> <<Lookup(tree, v)>>]
           ELSE [e |-> Recognize(AppendInitrd(en, f.data), line),
                 err |-> FALSE, calls |-> <<Lookup(tree, v)>>]
      ELSE IF k = <<"options">> THEN ok(AppendOptions(en, v))
      ELSE [e |-> Ignore(en, line), err |-> FALSE, calls |-> <<>>]

\* ------------------------------------------- LoadGrubEntry, the scan loop
\* InitrdLoop going on to the next path after a failing one
RECURSIVE InitrdLoopContinue(_, _, _)
InitrdLoopContinue(tree, en, ps) ==
  IF ps = <<>> THEN [e |-> en, err |-> FALSE, calls |-> <<>>]
  ELSE LET f == loadKeyValue(tree, Head(ps))
           rest == InitrdLoopContinue(tree, AppendInitrd(en, f.data), Tail(ps))
       IN  [rest EXCEPT !.calls = <<Lookup(tree, Head(ps))>> \o @,
                        !.err = f.err \/ @]

\* the loop over fields[1:] of an initrd line, from entry en
RECURSIVE InitrdLoop(_, _, _)
InitrdLoop(tree, en, ps) ==
  IF ps = <<>> THEN [e |-> en, err |-> FALSE, calls |-> <<>>]
  ELSE LET f == loadKeyValue(tree, Head(ps))
           rest == InitrdLoop(tree, AppendInitrd(en, f.data), Tail(ps))
       IN  IF f.err
           THEN [e |-> en, err |-> TRUE, calls |-> <<Lookup(tree, Head(ps))>>]
           ELSE [rest EXCEPT !.calls = <<Lookup(tree, Head(ps))>> \o @]

\* SetOptions adding the fields to the options already set
SetOptionsAppend(en, fields) ==
  IF Len(fields) > 2
  THEN [en EXCEPT !.Options = @ \o Join(SubSeq(fields, 3, Len(fields)), <<SP>>)]
  ELSE en

\* if len(fields) > 2 { e.Options = strings.Join(fields[2:], " ") }
SetOptions(en, fields) ==
  IF Len(fields) > 2
  THEN [en EXCEPT !.Options = Join(SubSeq(fields, 3, Len(fields)), <<SP>>)]
  ELSE en

\* one iteration of the sc.Scan() loop on the scanned text
grubLine(tree, en, text) ==
  LET line == TrimSpace(text)
      fields == Fields(line)
      skip == [e |-> en, err |-> FALSE, calls |-> <<>>]
      f == loadKeyValue(tree, fields[2])
      loop == InitrdLoop(tree, en, Tail(fields))
      nl == line \o <<LF>>
  IN  IF line = <<>> \/ HasPrefix(line, HASH) THEN skip
      ELSE IF Len(fields) = 0 THEN skip
      ELSE IF fields[1] = <<"linux">>
      THEN IF Len(fields) < 2 THEN skip
           ELSE IF f.err
           THEN [e |-> en, err |-> TRUE, calls |-> <<Lookup(tree, fields[2])>>]
           ELSE [e |-> Recognize(SetOptions([en EXCEPT !.Linux = f.data], fields), nl),
                 err |-> FALSE, calls |-> <<Lookup(tree, fields[2])>>]
      ELSE IF fields[1] = <<"initrd">>
      THEN IF Len(fields) < 2 THEN skip
           ELSE IF loop.err THEN loop
           ELSE [loop EXCEPT !.e = Recognize(@, nl)]
      ELSE [e |-> Recognize(Ignore(en, nl), nl), err |-> FALSE, calls |-> <<>>]

\* ------------------------------------------------------------------ inputs
\* the path argument of LoadEntry and LoadGrubEntry
EntryPath == <<"entry">>

\* the kernel and ramdisk images of the file tree, under translated paths
BaseTree ==
  (<<"d", BACKSLASH, "k1">> :> [data |-> <<"K1">>, err |-> FALSE]) @@
  (<<"i1">> :> [data |-> <<"I1">>, err |-> FALSE]) @@
  (<<"i2">> :> [data |-> <<"I2">>, err |-> FALSE])

\* lines of Type #1 entry files ("bad" names no file of the tree)
UapiLineSet ==
  { <<"title", SP, "T1">>,
    <<"title", SP, SP, "T2", CR>>,
    <<"linux", SP, "d", SLASH, "k1">>,
    <<"initrd", SP, "i1">>,
    <<"initrd", SP, "i2">>,
    <<"initrd", SP, "bad">>,
    <<"options", SP, "foo">>,
    <<"options", SP, "bar", SP>>,
    <<"foo", SP, "x">>,
    <<"foo">>,
    <<>> }

\* lines of GRUB configs
GrubLineSet ==
  { <<"menuentry", SP, QUOTE, "A", QUOTE, SP, LBRACE>>,
    <<"menuentry", SP, QUOTE, "B", QUOTE, SP, LBRACE, SP, RBRACE>>,
    <<SP, "x", SP, LBRACE, "y", RBRACE, SP, "z">>,
    <<RBRACE>>,
    <<TAB, "linux", SP, "d", SLASH, "k1", SP, "o1", SP, "o2">>,
    <<"initrd", SP, "i1", SP, "i2">>,
    <<"initrd", SP, "i2", SP, "bad", SP, "i1">>,
    <<"foo", SP, "bar">>,
    <<>> }

\* lines of GRUB configs with several linux directives, nested braces and
\* menuentry lines without brace
GrubBodyLineSet ==
  { <<"menuentry", SP, QUOTE, "A", QUOTE, SP, LBRACE>>,
    <<"menuentry", SP, QUOTE, "C", QUOTE>>,
    <<RBRACE>>,
    <<SP, "x", SP, LBRACE, "y", RBRACE, SP, "z">>,
    <<TAB, "linux", SP, "d", SLASH, "k1", SP, "o1", SP, "o2">>,
    <<"linux", SP, "d", SLASH, "k1">>,
    <<"linux", SP, "bad", SP, "o3">>,
    <<"foo", SP, "bar">> }

\* lines of texts given to ExtractGrubMenuentries
ExtractLineSet ==
  { <<"menuentry", SP, QUOTE, "A", QUOTE, SP, LBRACE>>,
    <<"menuentry", SP, QUOTE, "B", QUOTE, SP, LBRACE, SP, RBRACE>>,
    <<"menuentry", SP, QUOTE, "C", QUOTE>>,
    <<"menuentry", SP, QUOTE, "D", QUOTE, SP, LBRACE, SP, LBRACE>>,
    <<"menuentry", SP, QUOTE, "E", QUOTE, SP, RBRACE>>,
    <<LBRACE>>,
    <<RBRACE>>,
    <<SP, "x", SP, LBRACE, "y", RBRACE, SP, "z">>,
    <<"foo">> }

\* the non-empty sequences over S of length at most n
SeqsUpTo(S, n) == UNION {[1..m -> S] : m \in 1..n}

\* the file contents: lines joined by "\n" (a final empty line stands for a
\* terminated last line, a single empty line for the empty file)
UapiFiles == {Join(ls, <<LF>>) : ls \in SeqsUpTo(UapiLineSet, MaxUapiLines)}
GrubFiles == {Join(ls, <<LF>>) : ls \in SeqsUpTo(GrubLineSet, MaxGrubLines)}
GrubBodyFiles == {Join(ls, <<LF>>) : ls \in SeqsUpTo(GrubBodyLineSet, MaxGrubLines)}
ExtractFiles == {Join(ls, <<LF>>) : ls \in SeqsUpTo(ExtractLineSet, MaxExtractLines)}

\* ------------------------------------------------------------------- state
VARIABLES
  fsys,     \* the file tree: path -> what fs.ReadFile returns for it
  fn,       \* the function called: "", "LoadEntry", "LoadGrubEntry" or
            \* "ExtractGrubMenuentries"
  pc,       \* "idle" (not called yet), "loop" (in the loop over lines), "done"
  e,        \* the Entry under construction
  lines,    \* the lines the loop ranges over
  i,        \* number of loop iterations completed
  blocks,   \* the result of ExtractGrubMenuentries
  ex,       \* ExtractGrubMenuentries called on its own: its local variables
  lookups,  \* the fs.ReadFile calls made so far, in order
  ret       \* the outcome of the call once pc = "done"

vars == <<fsys, fn, pc, e, lines, i, blocks, ex, lookups, ret>>

\* a nil *Entry; a non-nil one is <<entry>>
Nil == <<>>

\* no outcome yet
NoRet == [e |-> Nil, err |-> "", panic |-> FALSE]

\* a returned (e, err) pair
Return(en, err) == [e |-> en, err |-> err, panic |-> FALSE]

\* Abort returning the Entry built so far with the error
AbortWithEntry(en, err) == Return(<<en>>, err)

\* return nil, fmt.Errorf(...) from inside the loop over lines, en being the
\* Entry built so far
Abort(en, err) == Return(Nil, err)

\* a run-time panic (index out of range)
Panic == [e |-> Nil, err |-> "", panic |-> TRUE]

Init ==
  /\ fsys \in {BaseTree @@ (EntryPath :> [data |-> d, err |-> b]) :
                 d \in UapiFiles \cup GrubFiles, b \in BOOLEAN}
  /\ fn = ""
  /\ pc = "idle"
  /\ e = NewEntry
  /\ lines = <<>>
  /\ i = 0
  /\ blocks = <<>>
  /\ ex = ExtractInit
  /\ lookups = <<>>
  /\ ret = NoRet

\* the record of the fs.ReadFile call on the entry path
EntryLookup(tree) == [path |-> EntryPath, ok |-> ~ReadFile(tree, EntryPath).err]

\* --------------------------------------------------------------- LoadEntry
\* LoadEntry up to its loop: create the Entry, read the file
LoadEntryRead ==
  /\ pc = "idle"
  /\ fn' = "LoadEntry"
  /\ LET entry == ReadFile(fsys, EntryPath)
     IN  /\ lookups' = <<EntryLookup(fsys)>>
         /\ e' = NewEntry
         /\ IF entry.err
            THEN /\ ret' = Return(Nil, "read")
                 /\ pc' = "done"
                 /\ lines' = lines
            ELSE /\ lines' = Lines(entry.data)
                 /\ pc' = "loop"
                 /\ ret' = ret
  /\ UNCHANGED <<fsys, i, blocks, ex>>

\* one iteration of the loop over strings.Lines
LoadEntryLine ==
  /\ fn = "LoadEntry" /\ pc = "loop"
  /\ i < Len(lines)
  /\ LET r == parseKey(fsys, e, lines[i + 1])
     IN  /\ e' = r.e
         /\ lookups' = lookups \o r.calls
         /\ i' = i + 1
         /\ IF r.err
            THEN ret' = Abort(r.e, "parse") /\ pc' = "done"
            ELSE ret' = ret /\ pc' = pc
  /\ UNCHANGED <<fsys, fn, lines, blocks, ex>>

\* the return after the loop
LoadEntryReturn ==
  /\ fn = "LoadEntry" /\ pc = "loop"
  /\ i = Len(lines)
  /\ ret' = Return(<<e>>, "")
  /\ pc' = "done"
  /\ UNCHANGED <<fsys, fn, e, lines, i, blocks, ex, lookups>>

\* ----------------------------------------------------------- LoadGrubEntry
\* LoadGrubEntry up to its loop on file tree tree: read the file (the error
\* is kept in err and not tested), extract the blocks, take blocks[0], match
\* title and body.  stop tells whether the function ends here, with ret.
GrubSetup(tree) ==
  LET toParse == ReadFile(tree, EntryPath)
      bs == ExtractGrubMenuentries(toParse.data)
      title == titleRe(bs[1])
      body == bodyRe(bs[1])
      titled == [NewEntry EXCEPT !.Title = title[1]]
  IN  IF Len(bs) = 0
      THEN [blocks |-> bs, stop |-> TRUE, ret |-> Panic, e |-> NewEntry, lines |-> <<>>]
      ELSE IF title = <<>>
      THEN [blocks |-> bs, stop |-> TRUE, ret |-> Return(Nil, "title"),
            e |-> NewEntry, lines |-> <<>>]
      ELSE IF body = <<>>
      THEN [blocks |-> bs, stop |-> TRUE, ret |-> Return(Nil, "braces"),
            e |-> titled, lines |-> <<>>]
      ELSE [blocks |-> bs, stop |-> FALSE, ret |-> NoRet,
            e |-> titled, lines |-> ScanLines(body[1])]

\* the bare return after the loop: sc.Err() is nil for an in-memory reader
\* whose lines fit the scanner's buffer; err still holds the read's error
GrubReturn(tree, en) ==
  Return(<<en>>, IF ReadFile(tree, EntryPath).err THEN "read" ELSE "")

LoadGrubEntryRead ==
  /\ pc = "idle"
  /\ fn' = "LoadGrubEntry"
  /\ LET g == GrubSetup(fsys)
     IN  /\ lookups' = <<EntryLookup(fsys)>>
         /\ blocks' = g.blocks
         /\ e' = g.e
         /\ lines' = g.lines
         /\ ret' = g.ret
         /\ pc' = IF g.stop THEN "done" ELSE "loop"
  /\ UNCHANGED <<fsys, i, ex>>

\* one iteration of the sc.Scan() loop
LoadGrubEntryLine ==
  /\ fn = "LoadGrubEntry" /\ pc = "loop"
  /\ i < Len(lines)
  /\ LET r == grubLine(fsys, e, lines[i + 1])
     IN  /\ e' = r.e
         /\ lookups' = lookups \o r.calls
         /\ i' = i + 1
         /\ IF r.err
            THEN ret' = Abort(r.e, "load") /\ pc' = "done"
            ELSE ret' = ret /\ pc' = pc
  /\ UNCHANGED <<fsys, fn, lines, blocks, ex>>

\* the return after the loop
LoadGrubEntryReturn ==
  /\ fn = "LoadGrubEntry" /\ pc = "loop"
  /\ i = Len(lines)
  /\ ret' = GrubReturn(fsys, e)
  /\ pc' = "done"
  /\ UNCHANGED <<fsys, fn, e, lines, i, blocks, ex, lookups>>

\* the scan loop over the lines ls from entry en, run to its end: the entry,
\* whether a load failed, and the lookups made
RECURSIVE GrubLoop(_, _, _)
GrubLoop(tree, en, ls) ==
  IF ls = <<>> THEN [e |-> en, err |-> FALSE, calls |-> <<>>]
  ELSE LET r == grubLine(tree, en, Head(ls))
           t == GrubLoop(tree, r.e, Tail(ls))
       IN  IF r.err THEN r ELSE [t EXCEPT !.calls = r.calls \o @]

\* LoadGrubEntry(fsys, path) run to its end on file tree tree: the outcome
\* and the fs.ReadFile calls made
LoadGrubEntry(tree) ==
  LET g == GrubSetup(tree)
      l == GrubLoop(tree, g.e, g.lines)
  IN  [ret |-> IF g.stop THEN g.ret
               ELSE IF l.err THEN Abort(l.e, "load")
               ELSE GrubReturn(tree, l.e),
       lookups |-> <<EntryLookup(tree)>> \o (IF g.stop THEN <<>> ELSE l.calls)]

Next ==
  \/ LoadEntryRead
  \/ LoadEntryLine
  \/ LoadEntryReturn
  \/ LoadGrubEntryRead
  \/ LoadGrubEntryLine
  \/ LoadGrubEntryReturn

Spec == Init /\ [][Next]_vars

\* ------------------------------------------- LoadGrubEntry on its own
\* the configs of GrubBodyFiles, readable or not
InitGrub ==
  /\ fsys \in {BaseTree @@ (EntryPath :> [data |-> d, err |-> b]) :
                 d \in GrubBodyFiles, b \in BOOLEAN}
  /\ fn = ""
  /\ pc = "idle"
  /\ e = NewEntry
  /\ lines = <<>>
  /\ i = 0
  /\ blocks = <<>>
  /\ ex = ExtractInit
  /\ lookups = <<>>
  /\ ret = NoRet

NextGrub ==
  \/ LoadGrubEntryRead
  \/ LoadGrubEntryLine
  \/ LoadGrubEntryReturn

SpecGrub == InitGrub /\ [][NextGrub]_vars

\* ------------------------------------- ExtractGrubMenuentries on its own
\* the texts the extractor is given
InitExtract ==
  /\ fsys \in {BaseTree @@ (EntryPath :> [data |-> d, err |-> FALSE]) :
                 d \in ExtractFiles}
  /\ fn = ""
  /\ pc = "idle"
  /\ e = NewEntry
  /\ lines = <<>>
  /\ i = 0
  /\ blocks = <<>>
  /\ ex = ExtractInit
  /\ lookups = <<>>
  /\ ret = NoRet

\* ExtractGrubMenuentries up to its loop, on the text of the entry file
ExtractStart ==
  /\ pc = "idle"
  /\ fn' = "ExtractGrubMenuentries"
  /\ lines' = Split(ReadFile(fsys, EntryPath).data, LF)
  /\ ex' = ExtractInit
  /\ pc' = "loop"
  /\ UNCHANGED <<fsys, e, i, blocks, lookups, ret>>

\* one iteration of the loop over lines
ExtractStep ==
  /\ fn = "ExtractGrubMenuentries" /\ pc = "loop"
  /\ i < Len(lines)
  /\ ex' = ExtractLine(ex, lines[i + 1])
  /\ i' = i + 1
  /\ UNCHANGED <<fsys, fn, pc, e, lines, blocks, lookups, ret>>

\* return entries, nil
ExtractReturn ==
  /\ fn = "ExtractGrubMenuentries" /\ pc = "loop"
  /\ i = Len(lines)
  /\ blocks' = ExtractResult(ex)
  /\ ret' = Return(Nil, "")
  /\ pc' = "done"
  /\ UNCHANGED <<fsys, fn, e, lines, i, ex, lookups>>

NextExtract ==
  \/ ExtractStart
  \/ ExtractStep
  \/ ExtractReturn

SpecExtract == InitExtract /\ [][NextExtract]_vars

\* the step actions and the run-to-end operator agree
ExtractStepsAgree ==
  (fn = "ExtractGrubMenuentries" /\ pc = "done") =>
     blocks = ExtractGrubMenuentries(ReadFile(fsys, EntryPath).data)

TypeOK ==
  /\ fn \in {"", "LoadEntry", "LoadGrubEntry", "ExtractGrubMenuentries"}
  /\ pc \in {"idle", "loop", "done"}
  /\ i \in 0..Len(lines)
  /\ ret.e \in {Nil, <<e>>}

\* the run-to-end operator and the step actions agree
GrubStepsAgree ==
  (fn = "LoadGrubEntry" /\ pc = "done") =>
     LoadGrubEntry(fsys) = [ret |-> ret, lookups |-> lookups]

\* ================================================================== claims
\* the text fs.ReadFile returns for the entry path and whether the read failed
Data == ReadFile(fsys, EntryPath).data
ReadFailed == ReadFile(fsys, EntryPath).err

\* the "\n"-separated lines of text s
TextLines(s) == Split(s, LF)

\* text s has a line that starts a menuentry block
HasMenuentry(s) == \E n \in 1..Len(TextLines(s)) : menuentryStart(TextLines(s)[n])

\* the kernel and ramdisk lookups made so far (all but the read of the file)
LoadCalls == Tail(lookups)

\* C1: LoadGrubEntry on a config without any menuentry block (the empty file
\* included) returns a nil Entry and an error; it does not panic and does not
\* succeed.
C1_NoMenuentryIsStructuralError ==
  (fn = "LoadGrubEntry" /\ pc = "done" /\ ~ReadFailed /\ ~HasMenuentry(Data))
    => (~ret.panic /\ ret.e = Nil /\ ret.err # "")

\* the index of the line that ends the block opened at line n of ls, counting
\* every brace (0 when the block never closes or closes more than it opens)
RECURSIVE BlockEnd(_, _, _, _)
BlockEnd(ls, n, depth, opened) ==
  LET d == depth + Count(ls[n], LBRACE) - Count(ls[n], RBRACE)
      o == opened \/ Contains(ls[n], LBRACE)
  IN  IF d < 0 THEN 0
      ELSE IF o /\ d = 0 THEN n
      ELSE IF n = Len(ls) THEN 0
      ELSE BlockEnd(ls, n + 1, d, o)

\* the lines ls are k >= 1 consecutive top-level balanced menuentry blocks and
\* nothing else: each starts with a menuentry line, ends where its braces
\* balance, and holds no other menuentry line
RECURSIVE ConsecutiveBlocks(_)
ConsecutiveBlocks(ls) ==
  /\ ls # <<>>
  /\ menuentryStart(ls[1])
  /\ LET end == BlockEnd(ls, 1, 0, FALSE)
     IN  /\ end > 0
         /\ \A n \in 2..end : ~menuentryStart(ls[n])
         /\ end = Len(ls) \/ ConsecutiveBlocks(SubSeq(ls, end + 1, Len(ls)))

\* the blocks of such lines, each from its menuentry line through its
\* matching closing brace
RECURSIVE BalancedBlocks(_)
BalancedBlocks(ls) ==
  IF ls = <<>> THEN <<>>
  ELSE LET end == BlockEnd(ls, 1, 0, FALSE)
       IN  <<Join(SubSeq(ls, 1, end), <<LF>>)>>
             \o BalancedBlocks(SubSeq(ls, end + 1, Len(ls)))

\* C2: on k consecutive top-level balanced menuentry blocks (multi-line ones,
\* inner balanced pairs allowed, or single-line ones closing on the menuentry
\* line) ExtractGrubMenuentries returns exactly the k blocks, in file order,
\* each from its menuentry line through its matching closing brace.
C2_ExtractsEveryBalancedBlock ==
  (fn = "LoadGrubEntry" /\ ConsecutiveBlocks(TextLines(Data)))
    => blocks = BalancedBlocks(TextLines(Data))

\* C3: when a kernel or ramdisk lookup fails, in either parser, the call
\* returns a nil Entry and a non-nil error.
C3_LoadFailureReturnsNil ==
  (pc = "done" /\ \E n \in 1..Len(LoadCalls) : ~LoadCalls[n].ok)
    => (ret.e = Nil /\ ret.err # "" /\ ~ret.panic)

\* C3 witness: LoadGrubEntry ended on a failing lookup after it had loaded
\* the kernel and one ramdisk.
C3_Witness ==
  /\ fn = "LoadGrubEntry" /\ pc = "done" /\ ~ReadFailed
  /\ Len(LoadCalls) = 3
  /\ LoadCalls[1].ok /\ LoadCalls[2].ok /\ ~LoadCalls[3].ok
  /\ e.Linux # <<>> /\ e.Initrd # <<>>
  /\ ret.e = Nil /\ ret.err = "load"

\* C4: when the read of the entry/config file fails, either parser returns
\* the read error and a nil Entry at once: no line is dispatched and no
\* kernel or ramdisk lookup follows.
C4_ReadFailureAbortsBeforeParsing ==
  (fn # "" /\ ReadFailed)
    => (pc = "done" /\ ret = Return(Nil, "read") /\ LoadCalls = <<>> /\ i = 0)

\* the keys of Type #1 entries and the directives of GRUB bodies
UapiKeys == {<<"title">>, <<"linux">>, <<"initrd">>, <<"options">>}
GrubDirectives == {<<"linux">>, <<"initrd">>}

\* a line of an entry file has a key token: a space ends it
HasKey(line) == Contains(line, SP)
KeyOf(line) == SubSeq(line, 1, Index(line, SP) - 1)
ValueOf(line) == TrimSpace(SubSeq(line, Index(line, SP) + 1, Len(line)))
RecognizedKey(line) == HasKey(line) /\ KeyOf(line) \in UapiKeys
UnrecognizedKey(line) == HasKey(line) /\ KeyOf(line) \notin UapiKeys

\* a line of a GRUB body is a directive: not blank and no comment
IsDirective(text) == TrimSpace(text) # <<>> /\ Head(TrimSpace(text)) # HASH
RecognizedDirective(text) ==
  IsDirective(text) /\ Fields(text)[1] \in GrubDirectives
UnrecognizedDirective(text) ==
  IsDirective(text) /\ Fields(text)[1] \notin GrubDirectives

\* what the GRUB parser records of a body line: the trimmed line and "\n"
Recorded(ls) == [n \in 1..Len(ls) |-> TrimSpace(ls[n]) \o <<LF>>]

\* the call returned an Entry and no error
Succeeded == pc = "done" /\ ret.e # Nil /\ ret.err = "" /\ ~ret.panic

\* C5: after a successful parse Recognized text holds exactly the lines with
\* a recognized key or directive and Ignored text exactly those with an
\* unrecognized one, so that no line is in both.
C5_RecognizedIgnoredPartition ==
  Succeeded =>
    IF fn = "LoadEntry"
    THEN /\ String(ret.e[1]) = Concat(SelectSeq(lines, RecognizedKey))
         /\ Ignored(ret.e[1]) = Concat(SelectSeq(lines, UnrecognizedKey))
    ELSE /\ String(ret.e[1]) = Concat(Recorded(SelectSeq(lines, RecognizedDirective)))
         /\ Ignored(ret.e[1]) = Concat(Recorded(SelectSeq(lines, UnrecognizedDirective)))

\* the ramdisk paths a line names, left to right, for the parser that ran
InitrdPaths(line) ==
  IF fn = "LoadEntry"
  THEN IF HasKey(line) /\ KeyOf(line) = <<"initrd">> THEN <<ValueOf(line)>> ELSE <<>>
  ELSE IF IsDirective(line) /\ Fields(line)[1] = <<"initrd">>
       THEN Tail(Fields(line)) ELSE <<>>

\* the kernel and ramdisk paths a line names, left to right
FilePaths(line) ==
  IF fn = "LoadEntry"
  THEN IF HasKey(line) /\ KeyOf(line) \in {<<"linux">>, <<"initrd">>}
       THEN <<ValueOf(line)>> ELSE <<>>
  ELSE IF IsDirective(line) /\ Fields(line)[1] = <<"linux">> /\ Len(Fields(line)) >= 2
       THEN <<Fields(line)[2]>>
       ELSE InitrdPaths(line)

\* the contents in the file tree of the paths ps, concatenated in order
Contents(ps) == Concat([n \in 1..Len(ps) |-> loadKeyValue(fsys, ps[n]).data])

\* the paths of the lines ls, in line order
AllInitrdPaths(ls) == Concat([n \in 1..Len(ls) |-> InitrdPaths(ls[n])])
AllFilePaths(ls) == Concat([n \in 1..Len(ls) |-> FilePaths(ls[n])])

\* C6: when all loads succeed, Initrd is the concatenation of the contents of
\* the ramdisk sources in textual order: line after line, and left to right
\* within a GRUB initrd line.
C6_InitrdInTextOrder ==
  (pc = "done" /\ ret.e # Nil) =>
     ret.e[1].Initrd = Contents(AllInitrdPaths(lines))

\* C6 witness: a successful parse whose Initrd holds two different images.
C6_Witness ==
  /\ Succeeded
  /\ Len(ret.e[1].Initrd) >= 2
  /\ ret.e[1].Initrd[1] # ret.e[1].Initrd[2]

\* no line of the entry file carries a recognized key
NoRecognizedKey ==
  \A n \in 1..Len(Lines(Data)) :
     SplitN2(Trim(Lines(Data)[n], {LF, CR}), SP)[1] \notin UapiKeys

\* every field of the Entry but Ignored text is empty
OnlyIgnored(en) ==
  /\ en.Title = <<>> /\ en.Linux = <<>> /\ en.Initrd = <<>>
  /\ en.Options = <<>> /\ String(en) = <<>>

\* C7 as stated: on an entry file without any recognized key LoadEntry
\* succeeds with all fields empty and Ignored text equal to the whole file.
C7_IgnoredIsWholeFile ==
  (fn = "LoadEntry" /\ pc = "done" /\ ~ReadFailed /\ NoRecognizedKey)
    => (Succeeded /\ OnlyIgnored(ret.e[1]) /\ Ignored(ret.e[1]) = Data)

\* C7 amended: on an entry file without any recognized key LoadEntry
\* succeeds with all fields empty and Ignored text equal to the lines of the
\* file that contain a space, with their terminators, in order; a line
\* without a space is in neither text.
C7_IgnoredIsLinesWithKey ==
  (fn = "LoadEntry" /\ pc = "done" /\ ~ReadFailed /\ NoRecognizedKey)
    => /\ Succeeded /\ OnlyIgnored(ret.e[1])
       /\ Ignored(ret.e[1]) = Concat(SelectSeq(Lines(Data), HasKey))

\* C7 witness: such a file with an ignored line and a line without a space.
C7_Witness ==
  /\ fn = "LoadEntry" /\ Succeeded /\ NoRecognizedKey
  /\ Ignored(ret.e[1]) # <<>>
  /\ Ignored(ret.e[1]) # Data

\* every line of the entry file is key<space>value with a recognized key
WellFormedEntry ==
  \A n \in 1..Len(Lines(Data)) : RecognizedKey(Lines(Data)[n])

\* C8: on a well-formed entry file whose files all load, String() is the
\* file content, byte for byte.
C8_RecognizedIsWholeFile ==
  (fn = "LoadEntry" /\ Succeeded /\ WellFormedEntry) => String(ret.e[1]) = Data

\* C8 witness: a well-formed file of several lines, one ending in "\r\n",
\* with a kernel loaded.
C8_Witness ==
  /\ fn = "LoadEntry" /\ Succeeded /\ WellFormedEntry
  /\ Len(lines) >= 2
  /\ Contains(Data, CR)
  /\ ret.e[1].Linux # <<>>

\* the lookups of paths ps, up to and including the first that fails
RECURSIVE UpToFirstFailure(_)
UpToFirstFailure(ps) ==
  IF ps = <<>> THEN <<>>
  ELSE IF ~Lookup(fsys, Head(ps)).ok THEN <<Lookup(fsys, Head(ps))>>
  ELSE <<Lookup(fsys, Head(ps))>> \o UpToFirstFailure(Tail(ps))

\* C9: at every point of a parse the kernel and ramdisk lookups made are, one
\* per path and in textual order, those of the lines dispatched so far, up to
\* the first failing one; a failing lookup ends the call.
C9_LookupsInTextOrder ==
  /\ fn # "" => LoadCalls = UpToFirstFailure(AllFilePaths(SubSeq(lines, 1, i)))
  /\ (fn # "" /\ \E n \in 1..Len(LoadCalls) : ~LoadCalls[n].ok) => pc = "done"

\* C9 witness: a GRUB initrd line whose second path fails: one lookup made
\* before it, none for the third path.
C9_Witness ==
  /\ fn = "LoadGrubEntry" /\ pc = "done" /\ ~ReadFailed
  /\ Len(LoadCalls) = 2 /\ LoadCalls[1].ok /\ ~LoadCalls[2].ok
  /\ Len(AllFilePaths(SubSeq(lines, 1, i))) = 3

\* largest number of lines of the blocks put after a first block
MaxTailLines == 2

\* the menuentry blocks that may follow a first block (none included)
FollowingBlocks ==
  {<<>>} \cup {t \in SeqsUpTo(GrubLineSet, MaxTailLines) : ConsecutiveBlocks(t)}

\* the file tree with the config made of the lines ls
WithConfig(ls) ==
  [fsys EXCEPT ![EntryPath] = [data |-> Join(ls, <<LF>>), err |-> FALSE]]

\* the lines of the first block of the lines ls
FirstBlock(ls) == SubSeq(ls, 1, BlockEnd(ls, 1, 0, FALSE))

\* C10: LoadGrubEntry's outcome depends on the first block only: whatever
\* blocks follow the first block of the config, the returned Entry, the
\* error and the lookups are the same.
C10_FirstBlockOnly ==
  (fn = "LoadGrubEntry" /\ pc = "done" /\ ~ReadFailed
     /\ ConsecutiveBlocks(TextLines(Data)))
    => \A t \in FollowingBlocks :
         LoadGrubEntry(WithConfig(FirstBlock(TextLines(Data)) \o t))
           = [ret |-> ret, lookups |-> lookups]

\* the lines the loop has gone through
Dispatched == SubSeq(lines, 1, i)

\* the value of an options line, nothing for another line
OptionsValue(line) ==
  IF HasKey(line) /\ KeyOf(line) = <<"options">> THEN ValueOf(line) ELSE <<>>

\* C11: in the UAPI parser Options is the concatenation, in line order and
\* without separator, of the trimmed values of the options lines gone through.
C11_OptionsConcatenated ==
  fn = "LoadEntry" =>
    e.Options = Concat([n \in 1..Len(Dispatched) |-> OptionsValue(Dispatched[n])])

\* C11 witness: `options foo` and `options bar ` parsed, giving "foobar".
C11_Witness ==
  /\ fn = "LoadEntry" /\ Succeeded
  /\ ret.e[1].Options = <<"foo", "bar">>

\* the title lines among the lines ls
IsTitleLine(line) == HasKey(line) /\ KeyOf(line) = <<"title">>
TitleLines(ls) == SelectSeq(ls, IsTitleLine)

\* the trimmed value of the last title line of ls, empty when there is none
LastTitle(ls) ==
  IF TitleLines(ls) = <<>> THEN <<>>
  ELSE ValueOf(TitleLines(ls)[Len(TitleLines(ls))])

\* C12: in the UAPI parser Title is the trimmed value of the last title line
\* gone through, empty when there was none.
C12_TitleIsLastTitle ==
  fn = "LoadEntry" => e.Title = LastTitle(Dispatched)

\* C12 witness: a successful parse of two title lines of different values,
\* Title being the second.
C12_Witness ==
  /\ fn = "LoadEntry" /\ Succeeded
  /\ Len(TitleLines(lines)) = 2
  /\ ValueOf(TitleLines(lines)[1]) # ValueOf(TitleLines(lines)[2])
  /\ ret.e[1].Title = ValueOf(TitleLines(lines)[2])

\* value v with the tree separator in place of every forward slash
Native(v) == [n \in 1..Len(v) |-> IF v[n] = SLASH THEN BACKSLASH ELSE v[n]]

\* C13: in both parsers the path of every kernel or ramdisk lookup is the
\* value written in the text with each forward slash replaced by a
\* backslash; no path with a forward slash is requested.
C13_PathsTranslated ==
  fn # "" => \A n \in 1..Len(LoadCalls) :
     /\ ~Contains(LoadCalls[n].path, SLASH)
     /\ LoadCalls[n].path = Native(AllFilePaths(Dispatched)[n])

\* C13 witness: a call that looked up d\k1 for the value d/k1 of its text.
C13_Witness ==
  /\ pc = "done" /\ Len(LoadCalls) >= 1
  /\ Contains(AllFilePaths(Dispatched)[1], SLASH)
  /\ Contains(LoadCalls[1].path, BACKSLASH)
  /\ LoadCalls[1].ok

\* ExtractGrubMenuentries is the function running
Extracting == fn = "ExtractGrubMenuentries"

\* line has no brace
BraceFree(line) == ~Contains(line, LBRACE) /\ ~Contains(line, RBRACE)

\* C14: right after the menuentry line that starts a block the brace depth is
\* the number of "{" of that line minus its number of "}".
C14_OpeningDepthIsNetBraces ==
  (Extracting /\ ex.collecting /\ Len(ex.current) = 1)
    => ex.braceLevel = Count(ex.current[1], LBRACE) - Count(ex.current[1], RBRACE)

\* C15: after a menuentry line without brace the extractor stays collecting,
\* at depth 0 and without emitting, across the brace-free lines that follow;
\* the block it emits in the end runs from the menuentry line through the
\* closing brace that matches the brace opened on a later line.
C15_CollectsUntilLaterBrace ==
  /\ (Extracting /\ i >= 1 /\ menuentryStart(lines[1])
        /\ \A n \in 1..i : BraceFree(lines[n]))
       => (ex.collecting /\ ex.braceLevel = 0 /\ ex.entries = <<>>)
  /\ (Extracting /\ pc = "done" /\ BraceFree(lines[1])
        /\ ConsecutiveBlocks(lines) /\ BlockEnd(lines, 1, 0, FALSE) = Len(lines))
       => blocks = <<Join(lines, <<LF>>)>>

\* C18: a block is emitted only by a line gone through while collecting and
\* after which the depth is 0; the result is the blocks so emitted and a nil
\* error, so a block still collected at the end of the input is dropped.
C18_EmitOnlyAtDepthZero ==
  /\ [][ex'.entries # ex.entries =>
          /\ ex.collecting /\ ex'.braceLevel = 0 /\ ~ex'.collecting
          /\ ex'.entries = Append(ex.entries,
                                  Join(Append(ex.current, lines[i + 1]), <<LF>>))]_vars
  /\ []((Extracting /\ pc = "done")
          => (blocks = ex.entries /\ ret.err = "" /\ ~ret.panic))

\* C18 witness: the input ended on a menuentry line that started a block,
\* after another block had been emitted; the result lacks the last block.
C18_Witness ==
  /\ Extracting /\ pc = "done"
  /\ menuentryStart(lines[Len(lines)])
  /\ ex.collecting /\ ex.current = <<lines[Len(lines)]>>
  /\ Len(blocks) = 1

\* the blocks bs are, in order, the texts of disjoint runs of the lines ls
\* from line n on, each run starting with a menuentry line
RECURSIVE OrderedRuns(_, _, _)
OrderedRuns(bs, ls, n) ==
  \/ bs = <<>>
  \/ \E a \in n..Len(ls) : \E b \in a..Len(ls) :
        /\ menuentryStart(ls[a])
        /\ bs[1] = Join(SubSeq(ls, a, b), <<LF>>)
        /\ OrderedRuns(Tail(bs), ls, b + 1)

\* a menuentry line met while collecting joins the current block
Absorbed ==
  (Extracting /\ ex.collecting /\ i' = i + 1 /\ menuentryStart(lines[i + 1]))
    => LET cur == Append(ex.current, lines[i + 1])
       IN  IF ex'.collecting
           THEN ex'.current = cur /\ ex'.entries = ex.entries
           ELSE ex'.entries = Append(ex.entries, Join(cur, <<LF>>))

\* C19: the blocks returned are contiguous runs of input lines, each starting
\* with a menuentry line, disjoint and in file order; a menuentry line met
\* while collecting is absorbed into the current block.
C19_BlocksAreOrderedRuns ==
  /\ [](Extracting => (OrderedRuns(ex.entries, lines, 1)
                         /\ OrderedRuns(blocks, lines, 1)))
  /\ [][Absorbed]_vars

\* C19 witness: two blocks returned, the first holding a second menuentry
\* line that was met while collecting.
C19_Witness ==
  /\ Extracting /\ pc = "done"
  /\ Len(blocks) = 2
  /\ Count(blocks[1], "menuentry") = 2

\* body line text is a linux directive with a path
IsLinuxLine(text) ==
  IsDirective(text) /\ Fields(text)[1] = <<"linux">> /\ Len(Fields(text)) >= 2

\* the fields after the path of body line text, joined by spaces
TrailingFields(text) == Join(SubSeq(Fields(text), 3, Len(Fields(text))), <<SP>>)

\* every kernel and ramdisk lookup made so far succeeded
AllLoaded == \A n \in 1..Len(LoadCalls) : LoadCalls[n].ok

\* C16 as stated: after a GRUB linux line whose load succeeds, Options is the
\* space-join of the fields after the path (empty when there are none) and
\* Linux the content of the path.
C16_OptionsAreTrailingFields ==
  (fn = "LoadGrubEntry" /\ i >= 1 /\ IsLinuxLine(lines[i]) /\ AllLoaded)
    => /\ e.Options = TrailingFields(lines[i])
       /\ e.Linux = loadKeyValue(fsys, Fields(lines[i])[2]).data

\* C16 amended: a GRUB linux line whose load succeeds sets Linux to the
\* content of the path; it sets Options to the space-join of the fields after
\* the path when there are such fields, overwriting the earlier value, and
\* leaves Options as it was when there are none.
C16_OptionsSetByTrailingFields ==
  [][(fn = "LoadGrubEntry" /\ pc = "loop" /\ i' = i + 1
        /\ IsLinuxLine(lines[i + 1])
        /\ ~loadKeyValue(fsys, Fields(lines[i + 1])[2]).err)
       => /\ e'.Linux = loadKeyValue(fsys, Fields(lines[i + 1])[2]).data
          /\ e'.Options = IF Len(Fields(lines[i + 1])) > 2
                          THEN TrailingFields(lines[i + 1])
                          ELSE e.Options]_vars

\* C16 witness: a linux line without trailing fields gone through after one
\* with fields: the kernel is loaded and Options is still "o1 o2".
C16_Witness ==
  /\ fn = "LoadGrubEntry" /\ i >= 2 /\ AllLoaded
  /\ IsLinuxLine(lines[i]) /\ Len(Fields(lines[i])) = 2
  /\ e.Linux = <<"K1">>
  /\ e.Options = <<"o1", SP, "o2">>

\* the indexes of block b at which c stands
Places(b, c) == {n \in 1..Len(b) : b[n] = c}

\* block b has a "{" and a "}" after it
HasBracePair(b) ==
  \E o \in Places(b, LBRACE) : \E c \in Places(b, RBRACE) : o < c

\* the text of block b strictly between its first "{" and the first "}"
\* that follows it
BetweenBraces(b) ==
  LET o == CHOOSE n \in Places(b, LBRACE) : \A m \in Places(b, LBRACE) : n <= m
      c == CHOOSE n \in Places(b, RBRACE) :
             n > o /\ \A m \in Places(b, RBRACE) : m > o => n <= m
  IN  SubSeq(b, o + 1, c - 1)

\* C17: the lines LoadGrubEntry scans are those of the text strictly between
\* the first "{" of the first block and the first "}" after it, so nothing
\* after that "}" is dispatched; a first block without such a pair gives the
\* 'missing braces' error.
C17_BodyIsFirstBracePair ==
  (fn = "LoadGrubEntry" /\ blocks # <<>>) =>
    IF HasBracePair(blocks[1])
    THEN lines = ScanLines(BetweenBraces(blocks[1])) /\ ret.err # "braces"
    ELSE /\ pc = "done" /\ ret = Return(Nil, "braces")
         /\ lines = <<>> /\ i = 0 /\ LoadCalls = <<>>

\* C17 witness: a first block with a linux directive after a nested brace
\* pair: the call succeeded without loading any kernel.
C17_Witness ==
  /\ fn = "LoadGrubEntry" /\ Succeeded
  /\ Count(blocks[1], "linux") >= 1
  /\ Count(blocks[1], RBRACE) = 2
  /\ LoadCalls = <<>> /\ ret.e[1].Linux = <<>>

====
